---- MODULE Spec2Model ----
(***************************************************************************)
(* Model of the register codec (test/csr.py: PitayaCSR, PitayaReal,        *)
(* PitayaTB), the CSR write serialiser and the threaded transaction queue  *)
(* (test/transfer.py: CsrParams, CsrThread) and the timed sampler          *)
(* (test/transfer.py: Filter).                                             *)
(*                                                                         *)
(* The three parts share no state.  Each has its own specification:        *)
(*   Spec / FairSpec  CsrThread: callers, queue, driver loop               *)
(*   CodecSpec        PitayaCSR.set / get and CsrParams.writes             *)
(*   SamplerSpec      Filter.do_simulation                                 *)
(*   FairSamplerSpec  the same, do_simulation called in every cycle        *)
(* A specification holds the variables of the other parts at their         *)
(* initial value.                                                          *)
(***************************************************************************)
EXTENDS Integers, Sequences, FiniteSets

VARIABLES
    \* ---- codec (csr.py) and serialiser (transfer.py CsrParams)
    backend,    \* "real" (PitayaReal), "tb" (PitayaTB), "named" (CsrParams with named params)
    store,      \* PitayaReal: the device memory behind /opt/bin/monitor, address -> byte
    params,     \* CsrParams.params / PitayaTB.params: key -> value
    last,       \* the last operation: its inputs, outcome and the byte operations it issued
    ncalls,     \* number of operations so far
    written,    \* history: register name -> the last value a successful set wrote
    prev,       \* history: the operation before the last one
    \* ---- sampler (transfer.py Filter)
    fx,         \* len(self.x)
    warmup_arg, \* the warmup argument of Filter.__init__
    warmup,     \* self.warmup (after the floor of line 24)
    latency,    \* self.latency
    interval,   \* self.interval
    cycle_counter, \* selfp.simulator.cycle_counter of the next do_simulation call
    xpos,       \* number of values taken from self.xgen
    ygen,       \* self.ygen: pending output-due cycles (with the input each belongs to)
    y,          \* self.y: captured outputs (the cycle and the input each was captured for)
    applied,    \* the cycle at which each input was applied
    stopped,    \* StopSimulation raised
    \* ---- transaction queue (transfer.py CsrThread)
    queue,      \* self.queue
    pc,         \* caller -> position in write/read
    cur,        \* caller -> the transaction of the call in progress
    ndone,      \* caller -> number of calls started
    evSet,      \* ids of the threading.Event objects that are set
    tdata,      \* TRead id -> t.data
    rets,       \* completed calls: the transaction and the value returned
    genpc,      \* position of the driver loop CsrThread.gen: "run", "delay", "done"
    delayLeft,  \* remaining yields of an int item
    regs,       \* the device's register file
    cycle,      \* the device's clock counter
    appLog,     \* history: items in the order they were appended
    popLog,     \* history: items in the order the driver popped them
    nctl        \* number of control items (None, int) appended

codecVars == <<backend, store, params, last, ncalls, written, prev>>
samplerVars == <<fx, warmup_arg, warmup, latency, interval, cycle_counter, xpos, ygen, y, applied, stopped>>
queueVars == <<queue, pc, cur, ndone, evSet, tdata, rets, genpc, delayLeft, regs, cycle,
               appLog, popLog, nctl>>
vars == <<codecVars, samplerVars, queueVars>>

(***************************************************************************)
(* Bounds of the model.                                                    *)
(***************************************************************************)
MaxCalls == 2       \* codec operations per run
MaxLen == 3         \* length of the sampler's input sequence
MaxWarmup == 3      \* warmup arguments tried, besides the default
MaxInterval == 3    \* sample intervals tried
MaxLatency == 2     \* pipeline latencies tried
NumCallers == 2     \* threads calling CsrThread.write / read
MaxItems == 2       \* write / read calls and control items, over all threads
MaxCycle == 1       \* idle clock steps are taken only below this clock value

(***************************************************************************)
(* Register codec: test/csr.py                                             *)
(***************************************************************************)
Base == 1076887552  \* 0x40300000

\* csrmap (imported, generated): name -> (addr, nr, wr)
csrmap ==
    [r1 |-> <<Base, 1, TRUE>>,
     r2 |-> <<Base + 4, 2, TRUE>>,
     r3 |-> <<Base + 12, 3, TRUE>>,
     ro |-> <<Base + 24, 2, FALSE>>]

NameInputs == DOMAIN csrmap \cup {"nx"}

AddrSpace == {Base + 4 * k : k \in 0..7}

\* value >> (8*k) & 0xff on Python's unbounded two's-complement integers
ByteOf(value, k) == (value \div (256 ^ k)) % 256

\* "{:x}".format(n) for n >= 0, as a sequence of hex digits, zero-padded to w digits
RECURSIVE HexDigits(_)
HexDigits(n) == IF n < 16 THEN <<n>> ELSE Append(HexDigits(n \div 16), n % 16)

RECURSIVE Pad(_, _)
Pad(s, w) == IF Len(s) >= w THEN s ELSE Pad(<<0>> \o s, w)

FormatHex(n, w) == Pad(HexDigits(n), w)

\* int(s, 16)
RECURSIVE ParseHex(_)
ParseHex(s) ==
    IF Len(s) = 0 THEN 0
    ELSE 16 * ParseHex(SubSeq(s, 1, Len(s) - 1)) + s[Len(s)]

\* PitayaReal.set_one: "0x{:08x} 0x{:02x}" handed to the monitor, which stores
\* the value at the address
RealSetOne(st, addr, value) ==
    LET a == ParseHex(FormatHex(addr, 8))
        v == ParseHex(FormatHex(value, 2))
    IN  [st EXCEPT ![a] = v]

\* PitayaReal.get_one: the monitor prints the value at the address in hex
RealGetOne(st, addr) ==
    LET a == ParseHex(FormatHex(addr, 8))
    IN  ParseHex(HexDigits(st[a]))

\* keys of the params dictionary: a register name or an integer offset
StrKey(name) == [isstr |-> TRUE, name |-> name, off |-> 0]
IntKey(off) == [isstr |-> FALSE, name |-> "", off |-> off]

DictSet(d, k, v) == [x \in DOMAIN d \cup {k} |-> IF x = k THEN v ELSE d[x]]

EmptyDict == [x \in {} |-> 0]

\* mutant: self.params.setdefault(key, value), a byte already set is kept
TbSetOneKeep(p, addr, value) ==
    IF IntKey((addr - Base) \div 4) \in DOMAIN p THEN p
    ELSE DictSet(p, IntKey((addr - Base) \div 4), value)

\* PitayaTB.set_one
TbSetOne(p, addr, value) == DictSet(p, IntKey((addr - Base) \div 4), value)

\* PitayaTB.get_one
TbGetOne(p, addr) == 0

\* mutant: the shift counts up, least-significant byte first
SetOpsLsbFirst(name, value) ==
    LET addr == csrmap[name][1]
        nr == csrmap[name][2]
        ma == 2 ^ (nr * 8)
        val == value % ma
    IN  [i \in 1..nr |-> [addr |-> addr + (i - 1) * 4, data |-> ByteOf(val, i - 1)]]

\* the loop of PitayaCSR.set: the set_one calls, in order
SetOps(name, value) ==
    LET addr == csrmap[name][1]
        nr == csrmap[name][2]
        ma == 2 ^ (nr * 8)
        val == value % ma
    IN  [i \in 1..nr |-> [addr |-> addr + (i - 1) * 4,
                          data |-> ByteOf(val, nr - (i - 1) - 1)]]

\* mutant: the upper limit of the signed range, value < ma/2
SetErrorSigned(name, value) ==
    IF name \notin DOMAIN csrmap THEN "KeyError"
    ELSE LET nr == csrmap[name][2]
             wr == csrmap[name][3]
             ma == 2 ^ (nr * 8)
         IN  IF ~wr THEN "AssertionError(wr)"
             ELSE IF ~(2 * value >= -ma /\ 2 * value < ma) THEN "AssertionError(range)"
             ELSE "ok"

\* the lookup and the two assertions of PitayaCSR.set, in the order of the code
SetError(name, value) ==
    IF name \notin DOMAIN csrmap THEN "KeyError"
    ELSE LET nr == csrmap[name][2]
             wr == csrmap[name][3]
             ma == 2 ^ (nr * 8)
         IN  IF ~wr THEN "AssertionError(wr)"
             ELSE IF ~(2 * value >= -ma /\ value < ma) THEN "AssertionError(range)"
             ELSE "ok"

RECURSIVE ApplyReal(_, _)
ApplyReal(st, ops) ==
    IF Len(ops) = 0 THEN st
    ELSE ApplyReal(RealSetOne(st, Head(ops).addr, Head(ops).data), Tail(ops))

RECURSIVE ApplyTb(_, _)
ApplyTb(p, ops) ==
    IF Len(ops) = 0 THEN p
    ELSE ApplyTb(TbSetOne(p, Head(ops).addr, Head(ops).data), Tail(ops))

\* mutant: the range assertion placed after the loop
SetIssuedBeforeCheck(name, value) ==
    IF SetError(name, value) \in {"ok", "AssertionError(range)"} THEN SetOps(name, value) ELSE <<>>

\* the set_one calls PitayaCSR.set makes before it returns or raises
SetIssued(name, value) ==
    IF SetError(name, value) = "ok" THEN SetOps(name, value) ELSE <<>>

\* mutant: the shift counts up, << 8*i
RECURSIVE GetFromLsbFirst(_, _, _, _)
GetFromLsbFirst(getone, addr, nr, i) ==
    IF i = nr THEN 0
    ELSE getone[addr + i * 4] * (256 ^ i) + GetFromLsbFirst(getone, addr, nr, i + 1)

\* PitayaCSR.get: v |= get_one(addr + i*4) << 8*(nr - i - 1); the bytes are
\* below 256, so the or of the shifted bytes is their sum
RECURSIVE GetFrom(_, _, _, _)
GetFrom(getone, addr, nr, i) ==
    IF i = nr THEN 0
    ELSE getone[addr + i * 4] * (256 ^ (nr - i - 1)) + GetFrom(getone, addr, nr, i + 1)

GetValue(name) ==
    LET addr == csrmap[name][1]
        nr == csrmap[name][2]
        getone == [a \in {addr + i * 4 : i \in 0..(nr - 1)} |->
                     IF backend = "real" THEN RealGetOne(store, a) ELSE TbGetOne(params, a)]
    IN  GetFrom(getone, addr, nr, 0)

(***************************************************************************)
(* CSR write serialiser: test/transfer.py CsrParams                        *)
(***************************************************************************)
\* dut.get_csrs(): the CSR descriptions in bank order, size in bits
Desc == <<[name |-> "b1", size |-> 16], [name |-> "a1", size |-> 18], [name |-> "b0", size |-> 8]>>

DescNames == {Desc[i].name : i \in 1..Len(Desc)}

\* the names in the order sorted() gives them
SortedNames == <<"a1", "b0", "b1">>

NameRank(name) == CHOOSE i \in 1..Len(SortedNames) : SortedNames[i] = name

\* migen.bank.csrgen.get_offset: the bytes of the CSRs in front of this one
RECURSIVE OffsetFrom(_, _)
OffsetFrom(i, name) ==
    IF Desc[i].name = name THEN 0
    ELSE (Desc[i].size + 8 - 1) \div 8 + OffsetFrom(i + 1, name)

get_offset(name) == OffsetFrom(1, name)

SizeOf(name) == Desc[CHOOSE i \in 1..Len(Desc) : Desc[i].name = name].size

\* the order of sorted(self.params); the keys of one dictionary are all names or all offsets
KeyLeq(k, o) == IF k.isstr THEN NameRank(k.name) <= NameRank(o.name) ELSE k.off <= o.off

RECURSIVE SortedKeys(_)
SortedKeys(S) ==
    IF S = {} THEN <<>>
    ELSE LET m == CHOOSE k \in S : \A o \in S : KeyLeq(k, o)
         IN  <<m>> \o SortedKeys(S \ {m})

\* the body of the loop over the keys: the TWrites of one key
KeyWrites(k, v) ==
    LET n == IF k.isstr THEN SizeOf(k.name) ELSE 1
        a == IF k.isstr THEN get_offset(k.name) ELSE k.off
        b == (n + 8 - 1) \div 8
    IN  [j \in 1..b |-> [addr |-> a + (j - 1), data |-> ByteOf(v, b - j)]]

RECURSIVE WritesOver(_, _)
WritesOver(keys, p) ==
    IF Len(keys) = 0 THEN <<>>
    ELSE KeyWrites(Head(keys), p[Head(keys)]) \o WritesOver(Tail(keys), p)

\* CsrParams.writes: every TWrite the generator yields, in order
writes(p) == WritesOver(SortedKeys(DOMAIN p), p)

(***************************************************************************)
(* Codec operations                                                        *)
(***************************************************************************)
\* the values tried for a register of nr bytes: the edges of the accepted range
EdgeValues(nr) ==
    LET ma == 2 ^ (nr * 8)
    IN  {-(ma \div 2) - 1, -(ma \div 2), (ma \div 2) - 1, ma \div 2, ma - 1, ma}

\* 258 = 0x0102 and 66051 = 0x010203 have pairwise different bytes
ValueInputs(name) ==
    IF name \in DOMAIN csrmap
    THEN EdgeValues(csrmap[name][2]) \cup {-1, 0, 258, 66051}
    ELSE {-1, 0}

NamedValueInputs == {-1, 258, 66051}

\* the params a CsrTransfer hands to CsrParams: names of the description
NamedParamInputs ==
    UNION {[{StrKey(n) : n \in S} -> NamedValueInputs] : S \in SUBSET DescNames}

NoCall == [op |-> "none", name |-> "", value |-> 0, err |-> "ok", ops |-> <<>>, ret |-> 0]

CodecInit ==
    /\ backend \in {"real", "tb", "named"}
    /\ store \in {[a \in AddrSpace |-> b] : b \in {0, 165}}
    /\ params \in IF backend = "named" THEN NamedParamInputs ELSE {EmptyDict}
    /\ last = NoCall
    /\ ncalls = 0
    /\ written = EmptyDict
    /\ prev = NoCall

\* PitayaCSR.set(name, value) on a PitayaReal or a PitayaTB
set(name, value) ==
    /\ UNCHANGED <<samplerVars, queueVars>>
    /\ backend \in {"real", "tb"}
    /\ ncalls < MaxCalls
    /\ LET ops == SetIssued(name, value)
       IN  /\ store' = IF backend = "real" THEN ApplyReal(store, ops) ELSE store
           /\ params' = IF backend = "tb" THEN ApplyTb(params, ops) ELSE params
           /\ last' = [op |-> "set", name |-> name, value |-> value,
                       err |-> SetError(name, value), ops |-> ops, ret |-> 0]
    /\ written' = IF SetError(name, value) = "ok" THEN DictSet(written, name, value) ELSE written
    /\ ncalls' = ncalls + 1
    /\ prev' = last
    /\ UNCHANGED backend

\* PitayaCSR.get(name)
get(name) ==
    /\ UNCHANGED <<samplerVars, queueVars>>
    /\ backend \in {"real", "tb"}
    /\ ncalls < MaxCalls
    /\ last' = [op |-> "get", name |-> name, value |-> 0,
                err |-> IF name \in DOMAIN csrmap THEN "ok" ELSE "KeyError",
                ops |-> <<>>,
                ret |-> IF name \in DOMAIN csrmap THEN GetValue(name) ELSE 0]
    /\ ncalls' = ncalls + 1
    /\ prev' = last
    /\ UNCHANGED <<backend, store, params, written>>

\* the Initiator draining CsrParams.writes() over the current params
CsrWrites ==
    /\ UNCHANGED <<samplerVars, queueVars>>
    /\ backend \in {"tb", "named"}
    /\ ncalls < MaxCalls
    /\ last' = [op |-> "writes", name |-> "", value |-> 0, err |-> "ok",
                ops |-> writes(params), ret |-> 0]
    /\ ncalls' = ncalls + 1
    /\ prev' = last
    /\ UNCHANGED <<backend, store, params, written>>

CodecNext ==
    \/ \E name \in NameInputs : \E value \in ValueInputs(name) : set(name, value)
    \/ \E name \in NameInputs : get(name)
    \/ CsrWrites

(***************************************************************************)
(* Timed sampler: test/transfer.py Filter                                  *)
(***************************************************************************)
DefaultWarmup == 200

WarmupInputs == 0..MaxWarmup \cup {DefaultWarmup}

\* mutant: the warmup taken as given, not floored
FloorWarmupNone(w, i) == w

\* Filter.__init__: warmup -= warmup % interval
FloorWarmup(w, i) == w - (w % i)

SamplerInit ==
    /\ fx \in 0..MaxLen
    /\ warmup_arg \in WarmupInputs
    /\ interval \in 1..MaxInterval
    /\ latency \in 0..MaxLatency
    /\ warmup = FloorWarmup(warmup_arg, interval)
    /\ cycle_counter = 0
    /\ xpos = 0
    /\ ygen = <<>>
    /\ y = <<>>
    /\ applied = <<>>
    /\ stopped = FALSE

\* c = selfp.simulator.cycle_counter - self.warmup
EffCycle == cycle_counter - warmup

\* first try block: at a multiple of the interval take the next input, when
\* there is one, and note the cycle its output is due
\* mutant: the cycle of the clock edge left out
DueCycleNoEdge == EffCycle + latency

\* mutant: the due cycle one cycle early, c - 1 + self.latency
DueCyclePast == EffCycle - 1 + latency

\* self.ygen.append(c + 1 + self.latency)
DueCycle == EffCycle + 1 + latency

YgenAfterInput ==
    IF EffCycle % interval = 0 /\ xpos < fx
    THEN Append(ygen, [due |-> DueCycle, k |-> xpos])
    ELSE ygen

\* mutant: self.ygen[-1] and self.ygen.pop()
PendingLast(yg) == Len(yg)

\* the pending entry looked at and popped: self.ygen[0], self.ygen.pop(0)
PendingIndex(yg) == 1

\* second try block: self.ygen.pop(0) when c == self.ygen[0]
Captures(yg) == Len(yg) > 0 /\ EffCycle = yg[PendingIndex(yg)].due

YgenAfterCapture(yg) ==
    IF Captures(yg)
    THEN [i \in 1..(Len(yg) - 1) |-> IF i < PendingIndex(yg) THEN yg[i] ELSE yg[i + 1]]
    ELSE yg

\* mutant: the warm-up test left out
WarmingUpNever == FALSE

\* if c < 0: return
WarmingUp == EffCycle < 0

\* mutant: the outputs compared with the inputs applied so far
FinishedApplied == Len(y) = xpos

\* if len(self.y) == len(self.x): raise StopSimulation
Finished == Len(y) = fx

\* Filter.do_simulation, called once per cycle by run_simulation
do_simulation ==
    /\ UNCHANGED <<codecVars, queueVars>>
    /\ ~stopped
    /\ IF WarmingUp
       THEN /\ cycle_counter' = cycle_counter + 1
            /\ UNCHANGED <<xpos, ygen, y, applied, stopped>>
       ELSE IF Finished
       THEN /\ stopped' = TRUE
            /\ UNCHANGED <<cycle_counter, xpos, ygen, y, applied>>
       ELSE LET takes == EffCycle % interval = 0 /\ xpos < fx
                yg == YgenAfterInput
            IN  /\ xpos' = IF takes THEN xpos + 1 ELSE xpos
                /\ applied' = IF takes THEN Append(applied, cycle_counter) ELSE applied
                /\ ygen' = YgenAfterCapture(yg)
                /\ y' = IF Captures(yg)
                        THEN Append(y, [cycle |-> cycle_counter, k |-> yg[PendingIndex(yg)].k])
                        ELSE y
                /\ cycle_counter' = cycle_counter + 1
                /\ UNCHANGED stopped
    /\ UNCHANGED <<fx, warmup_arg, warmup, latency, interval>>

SamplerNext == do_simulation

(***************************************************************************)
(* Threaded transaction queue: test/transfer.py CsrThread                  *)
(***************************************************************************)
Callers == 1..NumCallers

Addrs == {16}

\* the byte a caller writes: its own number, so that the writers can be told apart
WriteValues(c) == {c}

\* the int items tried: range(0) yields nothing, range(2) yields twice
DelayInputs == {0, 2}

\* queue items: TWrite "W", TRead "R", threading.Event "E", None "N", int "D"
Item(kind, id, addr, data) == [kind |-> kind, id |-> id, addr |-> addr, data |-> data]

NoItem == Item("-", <<0, 0>>, 0, 0)

\* TRead(addr).data before the Initiator has stored the bus value in it
NoData == [captured |-> FALSE, val |-> 0]

QueueInit ==
    /\ queue = <<>>
    /\ pc = [c \in Callers |-> "idle"]
    /\ cur = [c \in Callers |-> NoItem]
    /\ ndone = [c \in Callers |-> 0]
    /\ evSet = {}
    /\ tdata = EmptyDict
    /\ rets = {}
    /\ genpc = "run"
    /\ delayLeft = 0
    /\ regs = [a \in Addrs |-> 0]
    /\ cycle = 0
    /\ appLog = <<>>
    /\ popLog = <<>>
    /\ nctl = 0

\* calls started and control items appended so far
Started == Len(SelectSeq(appLog, LAMBDA q : q.kind # "E"))

\* self.queue.append(item)
Enqueue(item) ==
    /\ queue' = Append(queue, item)
    /\ appLog' = Append(appLog, item)

\* mutant: write stores the byte in the device itself as well as queueing it
WriteDirect(c, addr, value) ==
    /\ UNCHANGED <<codecVars, samplerVars>>
    /\ pc[c] = "idle"
    /\ Started < MaxItems
    /\ LET t == Item("W", <<c, ndone[c] + 1>>, addr, value)
       IN  /\ Enqueue(t)
           /\ cur' = [cur EXCEPT ![c] = t]
    /\ ndone' = [ndone EXCEPT ![c] = @ + 1]
    /\ pc' = [pc EXCEPT ![c] = "barrier"]
    /\ regs' = [regs EXCEPT ![addr] = value]
    /\ UNCHANGED <<evSet, tdata, rets, genpc, delayLeft, cycle, popLog, nctl>>

\* CsrThread.write: self.queue.append(TWrite(addr, value))
WriteAppend(c, addr, value) ==
    /\ UNCHANGED <<codecVars, samplerVars>>
    /\ pc[c] = "idle"
    /\ Started < MaxItems
    /\ LET t == Item("W", <<c, ndone[c] + 1>>, addr, value)
       IN  /\ Enqueue(t)
           /\ cur' = [cur EXCEPT ![c] = t]
    /\ ndone' = [ndone EXCEPT ![c] = @ + 1]
    /\ pc' = [pc EXCEPT ![c] = "barrier"]
    /\ UNCHANGED <<evSet, tdata, rets, genpc, delayLeft, regs, cycle, popLog, nctl>>

\* CsrThread.read: t = TRead(addr); self.queue.append(t)
ReadAppend(c, addr) ==
    /\ UNCHANGED <<codecVars, samplerVars>>
    /\ pc[c] = "idle"
    /\ Started < MaxItems
    /\ LET t == Item("R", <<c, ndone[c] + 1>>, addr, 0)
       IN  /\ Enqueue(t)
           /\ cur' = [cur EXCEPT ![c] = t]
           /\ tdata' = DictSet(tdata, t.id, NoData)
    /\ ndone' = [ndone EXCEPT ![c] = @ + 1]
    /\ pc' = [pc EXCEPT ![c] = "barrier"]
    /\ UNCHANGED <<evSet, rets, genpc, delayLeft, regs, cycle, popLog, nctl>>

\* write / read: ev = threading.Event(); self.queue.append(ev)
AppendBarrier(c) ==
    /\ UNCHANGED <<codecVars, samplerVars>>
    /\ pc[c] = "barrier"
    /\ Enqueue(Item("E", cur[c].id, 0, 0))
    /\ pc' = [pc EXCEPT ![c] = "wait"]
    /\ UNCHANGED <<cur, ndone, evSet, tdata, rets, genpc, delayLeft, regs, cycle, popLog, nctl>>

\* mutant: ev.wait() left out
ReleasedAlways(c) == TRUE

\* ev.wait() blocks until the event is set
Released(c) == cur[c].id \in evSet

\* write / read: ev.wait() returns; read then returns t.data
WaitReturn(c) ==
    /\ UNCHANGED <<codecVars, samplerVars>>
    /\ pc[c] = "wait"
    /\ Released(c)
    /\ rets' = rets \cup {[txn |-> cur[c],
                           value |-> IF cur[c].kind = "R" THEN tdata[cur[c].id] ELSE NoData]}
    /\ pc' = [pc EXCEPT ![c] = "idle"]
    /\ UNCHANGED <<queue, cur, ndone, evSet, tdata, genpc, delayLeft, regs, cycle,
                   appLog, popLog, nctl>>

\* a controlling thread (caller number 0) appends the stop sentinel None or a
\* delay int to self.queue
Control(kind, n) ==
    /\ UNCHANGED <<codecVars, samplerVars>>
    /\ Started < MaxItems
    /\ Enqueue(Item(kind, <<0, nctl + 1>>, 0, n))
    /\ nctl' = nctl + 1
    /\ UNCHANGED <<pc, cur, ndone, evSet, tdata, rets, genpc, delayLeft, regs, cycle, popLog>>

\* mutant: self.queue.pop() takes the newest item
PopLast == Len(queue)

\* q = self.queue.pop(0)
PopIndex == 1

\* the Initiator's bus cycle for a yielded TWrite: the bank stores the byte
RegsAfter(q) == IF q.kind = "W" THEN [regs EXCEPT ![q.addr] = q.data] ELSE regs

\* the Initiator's bus cycle for a yielded TRead: transaction.data = bus.dat_r
DataAfter(q) ==
    IF q.kind = "R" THEN [tdata EXCEPT ![q.id] = [captured |-> TRUE, val |-> regs[q.addr]]]
    ELSE tdata

\* mutant: the isinstance test dropped, every popped item releases its caller
SetEventsAny(q) == evSet \cup {q.id}

\* if isinstance(q, threading.Event): q.set()
SetEvents(q) == IF q.kind = "E" THEN evSet \cup {q.id} ELSE evSet

\* mutant: the IndexError is not caught and ends the generator
FailOnIndexError == "failed"

\* mutant: the loop ends when the queue is empty
StopOnIndexError == "done"

\* except IndexError: yield None, and the loop goes on
OnIndexError == "run"

\* mutant: every popped item is yielded, an Event and None too
YieldsAlways(q) == TRUE

\* the popped items gen yields for: a transaction (else: yield q) and an int
\* above 0 (for i in range(q): yield); an Event is set and None breaks
\* without a yield
Yields(q) == q.kind \in {"W", "R"} \/ (q.kind = "D" /\ q.data > 0)

\* mutant: None is skipped, the loop goes on
AfterPopNoBreak(q) == IF q.kind = "D" /\ q.data > 1 THEN "delay" ELSE "run"

\* where the loop is after the popped item: elif q is None: break ends it, an
\* int above 1 leaves further yields of its for loop, anything else loops
AfterPop(q) ==
    IF q.kind = "N" THEN "done"
    ELSE IF q.kind = "D" /\ q.data > 1 THEN "delay"
    ELSE "run"

\* One pass of the while loop of CsrThread.gen.  A yield hands control to the
\* Initiator, which lets one clock cycle pass, completes the yielded
\* transaction and resumes the generator.
gen ==
    /\ UNCHANGED <<codecVars, samplerVars>>
    /\ genpc = "run"
    /\ IF Len(queue) = 0
       THEN \* IndexError: yield None
            /\ cycle < MaxCycle
            /\ cycle' = cycle + 1
            /\ genpc' = OnIndexError
            /\ UNCHANGED <<queue, popLog, evSet, delayLeft, regs, tdata>>
       ELSE LET q == queue[PopIndex]
            IN  /\ queue' = [i \in 1..(Len(queue) - 1) |->
                               IF i < PopIndex THEN queue[i] ELSE queue[i + 1]]
                /\ popLog' = Append(popLog, q)
                /\ evSet' = SetEvents(q)
                /\ genpc' = AfterPop(q)
                /\ delayLeft' = IF q.kind = "D" /\ q.data > 1 THEN q.data - 1 ELSE delayLeft
                /\ cycle' = IF Yields(q) THEN cycle + 1 ELSE cycle
                /\ regs' = RegsAfter(q)
                /\ tdata' = DataAfter(q)
    /\ UNCHANGED <<pc, cur, ndone, rets, appLog, nctl>>

\* a further yield of "for i in range(q): yield"
GenDelay ==
    /\ UNCHANGED <<codecVars, samplerVars>>
    /\ genpc = "delay"
    /\ cycle' = cycle + 1
    /\ delayLeft' = delayLeft - 1
    /\ genpc' = IF delayLeft = 1 THEN "run" ELSE "delay"
    /\ UNCHANGED <<queue, pc, cur, ndone, evSet, tdata, rets, regs, appLog, popLog, nctl>>

Next ==
    \/ \E c \in Callers, a \in Addrs : \E v \in WriteValues(c) : WriteAppend(c, a, v)
    \/ \E c \in Callers, a \in Addrs : ReadAppend(c, a)
    \/ \E c \in Callers : AppendBarrier(c)
    \/ \E c \in Callers : WaitReturn(c)
    \/ Control("N", 0)
    \/ \E n \in DelayInputs : Control("D", n)
    \/ gen
    \/ GenDelay

(***************************************************************************)
(* Specifications                                                          *)
(***************************************************************************)
\* the parts at rest
CodecIdle ==
    /\ backend = "real"
    /\ store = [a \in AddrSpace |-> 0]
    /\ params = EmptyDict
    /\ last = NoCall
    /\ ncalls = 0
    /\ written = EmptyDict
    /\ prev = NoCall

SamplerIdle ==
    /\ fx = 0 /\ warmup_arg = 0 /\ warmup = 0 /\ latency = 0 /\ interval = 1
    /\ cycle_counter = 0 /\ xpos = 0 /\ ygen = <<>> /\ y = <<>> /\ applied = <<>>
    /\ stopped = FALSE

Init == CodecIdle /\ SamplerIdle /\ QueueInit

CodecSpecInit == CodecInit /\ SamplerIdle /\ QueueInit

SamplerSpecInit == CodecIdle /\ SamplerInit /\ QueueInit

Spec == Init /\ [][Next]_vars

Fairness ==
    /\ WF_vars(gen)
    /\ WF_vars(GenDelay)
    /\ \A c \in Callers : WF_vars(AppendBarrier(c)) /\ WF_vars(WaitReturn(c))

FairSpec == Spec /\ Fairness

CodecSpec == CodecSpecInit /\ [][CodecNext]_vars

SamplerSpec == SamplerSpecInit /\ [][SamplerNext]_vars

\* run_simulation calls do_simulation in every cycle until StopSimulation
SamplerFairness == WF_vars(do_simulation)

FairSamplerSpec == SamplerSpec /\ SamplerFairness

(***************************************************************************)
(* Properties of the transaction queue (Spec, FairSpec)                    *)
(***************************************************************************)
IsTxn(q) == q.kind \in {"W", "R"}

Barrier(id) == Item("E", id, 0, 0)

InLog(log, item) == \E i \in 1..Len(log) : log[i] = item

\* the transactions handed to the device, and the transactions appended
Handed == SelectSeq(popLog, IsTxn)

Submitted == SelectSeq(appLog, IsTxn)

IsPrefix(s, t) == Len(s) <= Len(t) /\ \A i \in 1..Len(s) : s[i] = t[i]

\* the driver popped transaction t and, later, the barrier of the same call
TxnThenBarrier(t) ==
    \E i, j \in 1..Len(popLog) : i < j /\ popLog[i] = t /\ popLog[j] = Barrier(t.id)

\* C1: a write or read call returns only after the driver loop has popped the
\* call's own transaction and, after it, the call's own barrier; a barrier is
\* never popped before the transaction it follows, and an event is set only
\* by the pop of its barrier.
C1_ReturnAfterOwnBarrier ==
    /\ \A r \in rets : TxnThenBarrier(r.txn)
    /\ \A j \in 1..Len(popLog) :
          popLog[j].kind = "E" =>
              \E i \in 1..(j - 1) : IsTxn(popLog[i]) /\ popLog[i].id = popLog[j].id
    /\ \A id \in evSet : InLog(popLog, Barrier(id))

\* C1 witness: two callers whose appends interleaved (both transactions were
\* popped before either barrier) have both returned.
C1_Witness ==
    /\ Cardinality(rets) = 2
    /\ Len(popLog) = 4
    /\ IsTxn(popLog[1]) /\ IsTxn(popLog[2])
    /\ popLog[1].id[1] # popLog[2].id[1]

\* C2: the transactions handed to the device are, at every moment, a prefix of
\* the transactions in the order they were appended: none reordered, skipped,
\* duplicated or merged.
C2_EnqueueOrder == IsPrefix(Handed, Submitted)

\* C2 witness: the transactions of two different callers have been handed over.
C2_Witness ==
    /\ Len(Handed) = 2
    /\ Handed[1].id[1] # Handed[2].id[1]
    /\ Handed[1].kind = "W" /\ Handed[2].kind = "R"

\* the register's value after the writes of a log, from the initial value 0
RECURSIVE RegAfterLog(_, _)
RegAfterLog(log, addr) ==
    IF Len(log) = 0 THEN 0
    ELSE LET q == log[Len(log)]
         IN  IF q.kind = "W" /\ q.addr = addr THEN q.data
             ELSE RegAfterLog(SubSeq(log, 1, Len(log) - 1), addr)

\* C3: the value a read call returns is the data captured for its own TRead:
\* it is set (never the unset initial data) and equals the register's value at
\* the moment the driver handed that TRead to the device, that is after exactly
\* the writes handed over before it.
C3_ReadReturnsCaptured ==
    \A r \in rets :
        r.txn.kind = "R" =>
            \E i \in 1..Len(popLog) :
                /\ popLog[i] = r.txn
                /\ r.value = [captured |-> TRUE,
                              val |-> RegAfterLog(SubSeq(popLog, 1, i - 1), r.txn.addr)]

\* C3 witness: a read has returned a value another caller's write had stored.
C3_Witness ==
    \E r \in rets : r.txn.kind = "R" /\ r.value.captured /\ r.value.val = 2

\* the item was appended with no stop sentinel in front of it
NoStopAhead(item) ==
    \E i \in 1..Len(appLog) :
        /\ appLog[i] = item
        /\ \A j \in 1..(i - 1) : appLog[j].kind # "N"

CallIds == Callers \X (1..MaxItems)

TxnOf(id) == {q \in {appLog[i] : i \in 1..Len(appLog)} : IsTxn(q) /\ q.id = id}

\* C4 (as claimed), in the form a finite run refutes: a call whose transaction
\* was appended with no stop sentinel ahead of it eventually returns, so the
\* driver loop never terminates while such a call has not been released (a
\* terminated loop sets no event any more).
C4_Original ==
    \A c \in Callers :
        (pc[c] \in {"barrier", "wait"} /\ NoStopAhead(cur[c]))
            => ~(genpc = "done" /\ cur[c].id \notin evSet)

\* every transaction appended with no stop sentinel ahead of it has been popped
\* (and with the pop applied), and every call whose barrier was appended with
\* no stop sentinel ahead of it has returned
Served ==
    \A id \in CallIds :
        /\ (\E t \in TxnOf(id) : NoStopAhead(t)) => (\E t \in TxnOf(id) : InLog(popLog, t))
        /\ NoStopAhead(Barrier(id)) => (\E r \in rets : r.txn.id = id /\ InLog(popLog, r.txn))

\* C4 (amended): under fair scheduling of the driver loop and of the callers,
\* a transaction appended with no stop sentinel ahead of it is eventually
\* popped and applied, and a call whose barrier was appended with no stop
\* sentinel ahead of it eventually returns.  The logs and the set of returned
\* calls only grow, so "each is eventually served" is "from some moment on all
\* of them are served".
C4_SubmittedExecutes == <>[]Served

\* C4 witness: a call has returned and the sentinel appended behind its barrier
\* has then stopped the driver loop.
C4_Witness ==
    /\ genpc = "done"
    /\ \E r \in rets : NoStopAhead(Barrier(r.txn.id))

(***************************************************************************)
(* Properties of the codec and the serialiser (CodecSpec)                  *)
(***************************************************************************)
\* the integer a sequence of byte operations spells, first byte most significant
RECURSIVE BigEndian(_)
BigEndian(ops) ==
    IF Len(ops) = 0 THEN 0
    ELSE 256 * BigEndian(SubSeq(ops, 1, Len(ops) - 1)) + ops[Len(ops)].data

AllBytes(ops) == \A i \in 1..Len(ops) : ops[i].data \in 0..255

SetOk == last.op = "set" /\ last.err = "ok"

\* the byte operations of a successful set, at addresses A, A + step, ...
SetLayout(step) ==
    SetOk =>
        LET A == csrmap[last.name][1]
            n == csrmap[last.name][2]
        IN  /\ Len(last.ops) = n
            /\ \A i \in 1..n : last.ops[i].addr = A + step * (i - 1)
            /\ AllBytes(last.ops)
            /\ BigEndian(last.ops) = last.value % (256 ^ n)

WidthBytes(name) == (SizeOf(name) + 7) \div 8

RECURSIVE SumWidths(_)
SumWidths(S) ==
    IF S = {} THEN 0
    ELSE LET k == CHOOSE x \in S : TRUE IN WidthBytes(k.name) + SumWidths(S \ {k})

\* the TWrites of CsrParams.writes over named params: for every register its
\* bytes at consecutive addresses from its offset, and nothing else
WritesLayout ==
    (last.op = "writes" /\ backend = "named") =>
        /\ Len(last.ops) = SumWidths(DOMAIN params)
        /\ AllBytes(last.ops)
        /\ \A k \in DOMAIN params :
              LET n == WidthBytes(k.name)
              IN  \E s \in 0..(Len(last.ops) - n) :
                     LET seg == SubSeq(last.ops, s + 1, s + n)
                     IN  /\ \A j \in 1..n : seg[j].addr = get_offset(k.name) + (j - 1)
                         /\ BigEndian(seg) = params[k] % (256 ^ n)

\* C5 (as claimed): a write of an n-byte register at address A issues exactly
\* n byte writes at A, A+1, ..., A+n-1, most-significant byte first, in
\* PitayaCSR.set and in CsrParams.writes alike.
C5_Original == SetLayout(1) /\ WritesLayout

\* C5 (amended): CsrParams.writes issues the n bytes at A, A+1, ..., A+n-1;
\* PitayaCSR.set issues them at A, A+4, ..., A+4*(n-1) (one 32-bit word per
\* byte); both most-significant byte first, exactly n operations.
C5_ByteOrder == SetLayout(4) /\ WritesLayout

\* C5 witness: a successful set of a 3-byte register whose bytes all differ.
C5_Witness == SetOk /\ last.name = "r3" /\ last.value = 66051 /\ Len(last.ops) = 3

SetChecked == last.op = "set" /\ last.name \in DOMAIN csrmap /\ csrmap[last.name][3]

\* a checked set fails with the range assertion exactly for the values outside lo..hi
RangeRule(lo(_), hi(_)) ==
    SetChecked =>
        LET w == csrmap[last.name][2]
        IN  /\ last.err \in {"ok", "AssertionError(range)"}
            /\ last.err = "AssertionError(range)" <=> ~(lo(w) <= last.value /\ last.value <= hi(w))

SignedMin(w) == -(2 ^ (8 * w - 1))

SignedMax(w) == 2 ^ (8 * w - 1) - 1

UnsignedMax(w) == 2 ^ (8 * w) - 1

\* C6 (as claimed): a set fails with the range error exactly for the values
\* outside the signed range of the width: 2^(8w-1) fails, 2^(8w-1) - 1 succeeds.
C6_Original == RangeRule(SignedMin, SignedMax)

\* C6 (amended): a set fails with the range error exactly for the values below
\* -2^(8w-1) or above 2^(8w) - 1: 2^(8w) fails and 2^(8w) - 1 succeeds,
\* -2^(8w-1) - 1 fails and -2^(8w-1) succeeds; 2^(8w-1) is accepted.
C6_RangeCheck == RangeRule(SignedMin, UnsignedMax)

\* C6 witness: 2^(8w) was rejected for the 3-byte register.
C6_Witness ==
    /\ SetChecked /\ last.name = "r3"
    /\ last.value = 2 ^ 24
    /\ last.err = "AssertionError(range)"

\* C7: a set that fails (unknown name, register not writable, value out of
\* range) has issued no byte write and leaves the device state as it was.
C7_AtomicFailure ==
    [][(ncalls' # ncalls /\ last'.op = "set" /\ last'.err # "ok")
          => (last'.ops = <<>> /\ store' = store /\ params' = params)]_vars

\* C7 witness: a set failed on the range check after an earlier set had
\* written the device.
C7_Witness ==
    /\ last.op = "set" /\ last.err = "AssertionError(range)"
    /\ DOMAIN written # {}
    /\ ncalls = 2

\* C8: on a byte store, get of a register returns the value the last successful
\* set of that register wrote, modulo 2^(8w).
C8_RoundTrip ==
    (backend = "real" /\ last.op = "get" /\ last.err = "ok" /\ last.name \in DOMAIN written) =>
        LET m == 2 ^ (8 * csrmap[last.name][2])
        IN  last.ret % m = written[last.name] % m

\* C8 witness: a negative value with different bytes was written to the 2-byte
\* register and read back (-32768 = 0x8000).
C8_Witness ==
    /\ backend = "real" /\ last.op = "get" /\ last.name = "r2"
    /\ "r2" \in DOMAIN written /\ written["r2"] = -32768
    /\ last.ret = 32768

(***************************************************************************)
(* Properties of the sampler (SamplerSpec)                                 *)
(***************************************************************************)
\* C9: the k-th captured output (k from 0) is sampled at device cycle
\* W' + k*I + 1 + L, W' the warmup floored to a multiple of the interval; with
\* interval 1, warmup 0 and three inputs the stopped run has captured three.
C9_LatencyCorrect ==
    /\ \A k \in 1..Len(y) :
          y[k].cycle = (warmup_arg - (warmup_arg % interval)) + (k - 1) * interval + 1 + latency
    /\ (stopped /\ interval = 1 /\ warmup_arg = 0 /\ fx = 3) => Len(y) = 3

\* C9 witness: the run of the example has stopped, with the largest latency.
C9_Witness ==
    /\ stopped /\ interval = 1 /\ warmup_arg = 0 /\ fx = 3 /\ latency = MaxLatency
    /\ Len(y) = 3
    /\ y[3].cycle = 3 + MaxLatency

\* C10: the k-th captured output belongs to the k-th applied input, which was
\* the earliest one pending; captured <= applied <= input length; the inputs
\* still pending are the applied ones not yet captured, in order; a stopped
\* run has as many outputs as inputs.
C10_Alignment ==
    /\ \A k \in 1..Len(y) : y[k].k = k - 1
    /\ Len(y) <= xpos /\ xpos <= fx
    /\ Len(applied) = xpos
    /\ Len(ygen) = xpos - Len(y)
    /\ \A i \in 1..Len(ygen) : ygen[i].k = Len(y) + i - 1
    /\ stopped => (Len(y) = fx /\ xpos = fx)

\* C10 witness: an output was captured while two later inputs were pending.
C10_Witness == Len(y) >= 1 /\ Len(ygen) >= 2

\* C11 (as stated): with an empty input sequence the run captures no output
\* and stops without advancing past cycle 0, whatever the warmup.
C11_Original ==
    fx = 0 => (Len(y) = 0 /\ cycle_counter = 0)

\* C11 (amended): with an empty input sequence the run applies no input,
\* records no pending output, captures no output, and stops in cycle W', the
\* warmup floored to a multiple of the interval, after W' idle cycles; it stops
\* in cycle 0 exactly when the warmup is smaller than the interval.
C11_EmptyInput ==
    fx = 0 =>
        /\ Len(y) = 0 /\ xpos = 0 /\ ygen = <<>> /\ applied = <<>>
        /\ cycle_counter <= warmup_arg - (warmup_arg % interval)
        /\ stopped => cycle_counter = warmup_arg - (warmup_arg % interval)

\* C11 witness: the empty run with the default warmup of 200 and interval 3
\* has stopped in cycle 198.
C11_Witness ==
    /\ fx = 0 /\ stopped
    /\ warmup_arg = DefaultWarmup /\ interval = 3
    /\ cycle_counter = 198

\* C12: on every backend, the testbench included, a get of a register returns
\* the value the last successful set of that register wrote, reduced modulo
\* 2^(8w) without sign extension (-1 written to a 2-byte register reads 65535).
C12_ReadBack ==
    (last.op = "get" /\ last.err = "ok" /\ last.name \in DOMAIN written) =>
        last.ret = written[last.name] % (2 ^ (8 * csrmap[last.name][2]))

\* the bytes of a register as the device holds them, first address first: the
\* byte store of PitayaReal, or the params of PitayaTB and the TWrites that
\* CsrParams.writes makes of them
RegBytes(st, p, name) ==
    LET addr == csrmap[name][1]
        nr == csrmap[name][2]
    IN  [i \in 1..nr |->
            IF backend = "real" THEN RealGetOne(st, addr + (i - 1) * 4)
            ELSE p[IntKey((addr + (i - 1) * 4 - Base) \div 4)]]

\* the TWrites of writes(p) that go to the bytes of a register
RegWrites(p, name) ==
    LET addr == csrmap[name][1]
        nr == csrmap[name][2]
        offs == {(addr + (i - 1) * 4 - Base) \div 4 : i \in 1..nr}
    IN  SelectSeq(writes(p), LAMBDA w : w.addr \in offs)

SetTwice ==
    /\ ncalls' # ncalls
    /\ last.op = "set" /\ last.err = "ok"
    /\ last'.op = "set" /\ last'.err = "ok"
    /\ last'.name = last.name

\* C13: a successful set of a register that follows a successful set of the
\* same register leaves in every byte of the register the byte of the second
\* value (most significant first) and, on the testbench, one TWrite per byte
\* with that byte; when the two values are equal the device state after the
\* second set is the state after the first.
C13_Idempotent ==
    [][SetTwice =>
          LET nr == csrmap[last'.name][2]
              val == last'.value % (2 ^ (8 * nr))
              bytes == [i \in 1..nr |-> ByteOf(val, nr - i)]
          IN  /\ RegBytes(store', params', last'.name) = bytes
              /\ backend = "tb" =>
                    [i \in 1..nr |-> RegWrites(params', last'.name)[i].data] = bytes
              /\ backend = "tb" => Len(RegWrites(params', last'.name)) = nr
              /\ last'.value = last.value => (store' = store /\ params' = params)]_vars

\* C13 witness: the 2-byte register was set to -1 (0xFFFF) and then to 258
\* (0x0102) on the testbench, and holds 1 and 2.
C13_Witness ==
    /\ backend = "tb" /\ ncalls = 2
    /\ prev.op = "set" /\ prev.err = "ok" /\ prev.name = "r2" /\ prev.value = -1
    /\ last.op = "set" /\ last.err = "ok" /\ last.name = "r2" /\ last.value = 258
    /\ params[IntKey(1)] = 1 /\ params[IntKey(2)] = 2

\* a step of the driver loop, not of a caller: every caller-side action
\* appends to the queue or moves a caller
DriverStep == appLog' = appLog /\ pc' = pc

\* C14: a pass of the driver loop that finds the queue empty yields no
\* transaction: the clock advances by one, the register file, the read data,
\* the events and the queue are unchanged, nothing is popped and the loop is
\* still running; the loop has ended only if it popped the stop sentinel.
C14_IdleStep ==
    /\ [][(genpc = "run" /\ Len(queue) = 0 /\ DriverStep) =>
             /\ cycle' = cycle + 1
             /\ regs' = regs /\ tdata' = tdata /\ evSet' = evSet
             /\ queue' = queue /\ popLog' = popLog
             /\ genpc' = "run"]_vars
    /\ [](genpc # "run" =>
             \/ genpc = "delay"
             \/ genpc = "done" /\ \E i \in 1..Len(popLog) : popLog[i].kind = "N")

\* C14 witness: the loop idled on the empty queue, and later popped a write
\* that was appended after the idle step and applied it.
C14_Witness ==
    /\ cycle = 2 /\ genpc = "run"
    /\ Len(popLog) = 1 /\ popLog[1].kind = "W"
    /\ regs[popLog[1].addr] = popLog[1].data

\* C15 (as stated): at most one queue item (Write, Read or Barrier) is removed
\* per clock step, so the Writes, Reads and Barriers popped never outnumber
\* the clock steps taken.
C15_Original == Len(SelectSeq(popLog, LAMBDA q : q.kind \in {"W", "R", "E"})) <= cycle

\* the transactions (TWrite, TRead) among the popped items
PoppedTxns == SelectSeq(popLog, LAMBDA q : q.kind \in {"W", "R"})

\* C15 (amended): a pass of the running loop over a non-empty queue removes
\* exactly the head item.  A Write or a Read takes one clock step; a Barrier
\* and the stop sentinel take none, so they are removed in the clock step of
\* a neighbouring item.  At most one Write or Read is popped per clock step.
C15_PopPerPass ==
    /\ [][(genpc = "run" /\ Len(queue) > 0 /\ DriverStep) =>
             /\ popLog' = Append(popLog, Head(queue))
             /\ queue' = Tail(queue)
             /\ Head(queue).kind \in {"W", "R"} => cycle' = cycle + 1
             /\ Head(queue).kind \in {"E", "N"} => cycle' = cycle]_vars
    /\ [](Len(PoppedTxns) <= cycle)

\* C15 witness: a Write and its Barrier were both popped within one clock step.
C15_Witness ==
    /\ cycle = 1 /\ Len(popLog) = 2
    /\ popLog[1].kind = "W" /\ popLog[2].kind = "E"

\* C16 (as stated): in a cycle at or after the warmup in which the number of
\* captured outputs equals the number of inputs applied so far (at least
\* one), the run stops.
C16_Original ==
    [][(EffCycle >= 0 /\ xpos > 0 /\ Len(y) = xpos) => stopped']_vars

\* C16 (amended): at or after the warmup the run stops exactly in the first
\* cycle in which the number of captured outputs equals the length of the
\* input sequence; the stopping call applies and captures nothing and no
\* further cycle is simulated.  It goes on through the cycles in which the
\* captured outputs equal the inputs applied so far but not yet all inputs.
C16_StopAtInputLength ==
    /\ [][EffCycle >= 0 =>
             /\ stopped' = (Len(y) = fx)
             /\ stopped' => (y' = y /\ xpos' = xpos /\ cycle_counter' = cycle_counter)
             /\ ~stopped' => cycle_counter' = cycle_counter + 1]_vars
    /\ [](stopped => (Len(y) = fx /\ xpos = fx))
    /\ [](EffCycle < 0 => ~stopped)

\* C16 witness: with interval 3 and latency 0 the first output was captured
\* before the second input was applied (captured = applied = 1 of 2), the
\* run went on and stopped after the second capture.
C16_Witness ==
    /\ stopped /\ fx = 2 /\ interval = 3 /\ latency = 0
    /\ Len(y) = 2 /\ y[1].cycle < applied[2]

\* W' of the claims: the warmup argument floored to a multiple of the interval
FlooredWarmup == warmup_arg - (warmup_arg % interval)

\* C17: in the cycles below W' = warmup - (warmup mod interval) the sampler
\* applies no input, records no pending output and captures none; input k
\* (from 0) is applied exactly in cycle W' + k*interval, the first in cycle W'.
C17_WarmupDiscard ==
    /\ cycle_counter <= FlooredWarmup =>
          (xpos = 0 /\ applied = <<>> /\ ygen = <<>> /\ y = <<>>)
    /\ (cycle_counter > FlooredWarmup /\ fx > 0) => Len(applied) >= 1
    /\ \A k \in 1..Len(applied) : applied[k] = FlooredWarmup + (k - 1) * interval
    /\ \A i \in 1..Len(ygen) : ygen[i].due > 0
    /\ \A k \in 1..Len(y) : y[k].cycle > FlooredWarmup

\* C17 witness: with the default warmup of 200 and interval 3 the first two
\* inputs were applied in cycles 198 and 201.
C17_Witness ==
    /\ warmup_arg = DefaultWarmup /\ interval = 3
    /\ Len(applied) = 2 /\ applied[1] = 198 /\ applied[2] = 201

\* a step of a caller or of the controlling thread: it appends to the queue,
\* moves a caller or completes a call
CallerStep == appLog' # appLog \/ pc' # pc \/ rets' # rets

\* C18: every caller-side step (appending a Write or Read, appending the
\* Barrier, returning from the wait, appending a control item) leaves the
\* register file and the clock counter unchanged; only passes of the driver
\* loop change them.
C18_DriverOwnsDevice ==
    [][(CallerStep => (regs' = regs /\ cycle' = cycle))
       /\ ((regs' # regs \/ cycle' # cycle) => (genpc \in {"run", "delay"} /\ DriverStep))]_vars

\* C18 witness: after the driver applied caller 1's write, caller 2 appended
\* a write of another byte to the same address and its Barrier; the register
\* still holds caller 1's byte and the clock its value.
C18_Witness ==
    /\ regs[16] = 1 /\ cycle = 1
    /\ pc[2] = "wait"
    /\ Len(queue) = 2 /\ queue[1].kind = "W" /\ queue[1].data = 2 /\ queue[2].kind = "E"

\* C19: once the driver loop has popped the stop sentinel it has ended: no
\* item is popped after the sentinel, whether it was behind it in the queue or
\* appended later, the register file and the clock stay as they are, no
\* further read captures a value, no further Event is set, and a caller waiting on an Event that
\* is not set keeps waiting.
C19_StopSentinel ==
    /\ [][genpc = "done" =>
             /\ genpc' = "done"
             /\ popLog' = popLog /\ evSet' = evSet
             /\ regs' = regs /\ cycle' = cycle
             /\ \A id \in DOMAIN tdata' :
                   tdata'[id].captured => (id \in DOMAIN tdata /\ tdata[id] = tdata'[id])
             /\ \A c \in Callers :
                   (pc[c] = "wait" /\ cur[c].id \notin evSet) => pc'[c] = "wait"]_vars
    /\ [](\A i \in 1..Len(popLog) : popLog[i].kind = "N" => i = Len(popLog))
    /\ []((\E i \in 1..Len(popLog) : popLog[i].kind = "N") => genpc = "done")

\* C19 witness: the sentinel was popped ahead of a caller's Barrier; the
\* Barrier is left in the queue, not set, and the caller waits.
C19_Witness ==
    /\ genpc = "done"
    /\ \E c \in Callers :
          /\ pc[c] = "wait" /\ cur[c].id \notin evSet
          /\ \E i \in 1..Len(queue) : queue[i].kind = "E" /\ queue[i].id = cur[c].id

\* C20: for every input length, interval, latency and warmup the run
\* eventually stops, and a stopped run has applied every input and captured
\* as many outputs as there are inputs; the earliest pending due cycle is
\* never below the effective cycle of the next call, and the due cycles
\* increase along the pending list, so no due cycle is passed over.
C20_Terminates ==
    /\ <>stopped
    /\ [](stopped => (xpos = fx /\ Len(applied) = fx /\ Len(y) = fx /\ ygen = <<>>))
    /\ [](Len(ygen) > 0 => ygen[1].due >= EffCycle)
    /\ [](\A i \in 1..(Len(ygen) - 1) : ygen[i].due < ygen[i + 1].due)

\* C20 witness: the longest run of the bounds has stopped: default warmup,
\* largest interval and latency, all inputs applied and captured.
C20_Witness ==
    /\ stopped
    /\ fx = MaxLen /\ warmup_arg = DefaultWarmup
    /\ interval = MaxInterval /\ latency = MaxLatency
    /\ xpos = MaxLen /\ Len(y) = MaxLen

====
